---- MODULE Spec2Model ----
(***************************************************************************)
(* A model of veracross_api/veracross.py: the singleton decorator, the     *)
(* Veracross client's constructor, its parameter clean-up, its rate-limit  *)
(* bookkeeping (set_timers) and the paginated pull loop.                   *)
(*                                                                         *)
(* Python strings that the code inspects character by character are        *)
(* sequences of one-character strings; opaque strings (user names, URLs,   *)
(* dictionary keys) are TLA+ strings.  HTTP header values are sequences of *)
(* digit characters, converted by int as int() converts them.              *)
(***************************************************************************)
EXTENDS Integers, Sequences, FiniteSets, TLC

VARIABLES
    heap,       \* the Veracross objects whose __init__ completed, by identity
    instance,   \* wrapper_singleton.instance: 0 (None) or an index into heap
    pc,         \* per thread: position in wrapper_singleton or pull
    self,       \* per thread: the client the thread was last returned (0: none)
    config,     \* per thread: the config argument of the construction call
    newobj,     \* per thread: the object cls(...) returned, not yet stored
    cres,       \* per thread: outcome of the last construction call
    params,     \* per thread: pull's local `params`
    response,   \* per thread: the fields of pull's local `response` read later
    records,    \* per thread: pull's local `records`
    page,       \* per thread: pull's local `page`
    pages,      \* per thread: pull's local `pages`
    result,     \* per thread: outcome of the last pull call
    reqs,       \* per thread: page values of the requests issued by this pull
    got,        \* per thread: bodies of the responses received by this pull
    badparsed,  \* per thread: this pull parsed the body of a non-200 response
    non200,     \* per thread: this pull received a response whose status is not 200
    first,      \* per thread: status and X-Total-Count of this pull's first response
    parameters, \* per thread: pull's argument `parameters`
    url,        \* per thread: pull's local `url`
    lastHdr,    \* rate-limit header pair of the last response received
    lastSet,    \* rate-limit header pair last handed to set_timers
    overwritten, \* per thread: another thread stored a timer since its line 105
    blocked     \* time slept since the last response was received

vars == <<heap, instance, pc, self, config, newobj, cres, params, response,
          records, page, pages, result, reqs, got, badparsed, non200, first,
          parameters, url, lastHdr, lastSet, overwritten, blocked>>

cvars == <<config, newobj, cres>>

pvars == <<params, response, records, page, pages, result, reqs, got,
           badparsed, non200, first, parameters, url>>

-----------------------------------------------------------------------------
(* Bounds of the model *)

MaxHundreds == 1

MaxReset == 1

(* Program constants *)

PageSize == 100

DefaultRemaining == 300

DefaultReset == 0

OkStatus == 200

Threads == {1, 2}

-----------------------------------------------------------------------------
(* Python values *)

Absent == "<absent>"

None == [t |-> "none", v |-> 0]

PyStr(s) == [t |-> "str", v |-> s]

PyInt(n) == [t |-> "int", v |-> n]

PyList(xs) == [t |-> "list", v |-> xs]

PyDate(y, m, d) == [t |-> "date", v |-> <<y, m, d>>]

PyDatetime(y, m, d) == [t |-> "datetime", v |-> <<y, m, d>>]

Digits == <<"0", "1", "2", "3", "4", "5", "6", "7", "8", "9">>

DigitChars == {Digits[i] : i \in 1..10}

DigitVal(c) == CHOOSE i \in 0..9 : Digits[i + 1] = c

\* int(): the decimal value of a header's digit string
RECURSIVE int(_)
int(ds) == IF Len(ds) = 0 THEN 0
           ELSE 10 * int(SubSeq(ds, 1, Len(ds) - 1)) + DigitVal(ds[Len(ds)])

\* the decimal digit string of the number n
RECURSIVE Decimal(_)
Decimal(n) == IF n < 10 THEN <<Digits[n + 1]>>
              ELSE Append(Decimal(n \div 10), Digits[(n % 10) + 1])

-----------------------------------------------------------------------------
(* Construction: the singleton decorator and Veracross.__init__ *)

ShortNames == {Absent, "abc"}

Urls == {Absent, "https://example.test/api/"}

Users == {Absent, "", "alice"}

Passwords == {Absent, "", "pw"}

Configs == [school_short_name : ShortNames, vcurl : Urls,
            vcuser : Users, vcpass : Passwords]

NoConfig == [school_short_name |-> Absent, vcurl |-> Absent,
             vcuser |-> Absent, vcpass |-> Absent]

\* 'https://api.veracross.com/{}/v2/'.format(name)
Template(name) == <<"https://api.veracross.com/", name, "/v2/">>

ApiUrlShortNameWins(c) ==
    IF c.school_short_name # Absent THEN Template(c.school_short_name)
    ELSE IF c.vcurl # Absent THEN <<c.vcurl>>
    ELSE <<>>

\* the value of self.api_url after lines 71-76; <<>> when never assigned
ApiUrl(c) == IF c.vcurl # Absent THEN <<c.vcurl>>
             ELSE IF c.school_short_name # Absent THEN Template(c.school_short_name)
             ELSE <<>>

\* the test of line 78
HasCredentials(c) == c.vcuser # Absent /\ c.vcpass # Absent

\* the object __init__ leaves behind when it does not raise
NewClient(c) == [rate_limit_remaining |-> DefaultRemaining,
                 rate_limit_reset |-> DefaultReset,
                 auth |-> <<c.vcuser, c.vcpass>>,
                 vcuser |-> c.vcuser,
                 api_url |-> ApiUrl(c)]

NoResponse == [status |-> 0, remaining |-> <<>>, reset |-> <<>>, body |-> <<>>]

NoFirst == [status |-> 0, total |-> <<>>]

NoHdr == <<-1, -1>>

\* the per-call state of pull, before a call
PullReset(t) ==
    /\ params' = [params EXCEPT ![t] = <<>>]
    /\ response' = [response EXCEPT ![t] = NoResponse]
    /\ records' = [records EXCEPT ![t] = <<>>]
    /\ page' = [page EXCEPT ![t] = 0]
    /\ pages' = [pages EXCEPT ![t] = 0]
    /\ result' = [result EXCEPT ![t] = "none"]
    /\ reqs' = [reqs EXCEPT ![t] = <<>>]
    /\ got' = [got EXCEPT ![t] = <<>>]
    /\ badparsed' = [badparsed EXCEPT ![t] = FALSE]
    /\ non200' = [non200 EXCEPT ![t] = FALSE]
    /\ first' = [first EXCEPT ![t] = NoFirst]
    /\ parameters' = [parameters EXCEPT ![t] = None]
    /\ url' = [url EXCEPT ![t] = <<>>]

Init ==
    /\ heap = <<>>
    /\ instance = 0
    /\ pc = [t \in Threads |-> "idle"]
    /\ self = [t \in Threads |-> 0]
    /\ config = [t \in Threads |-> NoConfig]
    /\ newobj = [t \in Threads |-> 0]
    /\ cres = [t \in Threads |-> "none"]
    /\ params = [t \in Threads |-> <<>>]
    /\ response = [t \in Threads |-> NoResponse]
    /\ records = [t \in Threads |-> <<>>]
    /\ page = [t \in Threads |-> 0]
    /\ pages = [t \in Threads |-> 0]
    /\ result = [t \in Threads |-> "none"]
    /\ reqs = [t \in Threads |-> <<>>]
    /\ got = [t \in Threads |-> <<>>]
    /\ badparsed = [t \in Threads |-> FALSE]
    /\ non200 = [t \in Threads |-> FALSE]
    /\ first = [t \in Threads |-> NoFirst]
    /\ parameters = [t \in Threads |-> None]
    /\ url = [t \in Threads |-> <<>>]
    /\ lastHdr = NoHdr
    /\ lastSet = NoHdr
    /\ overwritten = [t \in Threads |-> FALSE]
    /\ blocked = 0

\* wrapper_singleton, lines 53 and 56 when an instance exists: return it
ConstructExisting(t, c) ==
    /\ pc[t] = "idle"
    /\ instance # 0
    /\ config' = [config EXCEPT ![t] = c]
    /\ cres' = [cres EXCEPT ![t] = "returned"]
    /\ self' = [self EXCEPT ![t] = instance]
    /\ PullReset(t)
    /\ UNCHANGED <<heap, instance, pc, newobj, lastHdr, lastSet, overwritten, blocked>>

\* wrapper_singleton, line 53 when there is no instance: go on to cls(...)
ConstructCall(t, c) ==
    /\ pc[t] = "idle"
    /\ instance = 0
    /\ config' = [config EXCEPT ![t] = c]
    /\ cres' = [cres EXCEPT ![t] = "none"]
    /\ pc' = [pc EXCEPT ![t] = "init"]
    /\ PullReset(t)
    /\ UNCHANGED <<heap, instance, self, newobj, lastHdr, lastSet, overwritten, blocked>>

\* Veracross.__init__ with both credentials: a new object
InitOk(t) ==
    /\ pc[t] = "init"
    /\ HasCredentials(config[t])
    /\ heap' = Append(heap, NewClient(config[t]))
    /\ newobj' = [newobj EXCEPT ![t] = Len(heap) + 1]
    /\ pc' = [pc EXCEPT ![t] = "assign"]
    /\ UNCHANGED <<instance, self, config, cres, lastHdr, lastSet, overwritten, blocked>>
    /\ UNCHANGED pvars

\* Veracross.__init__ without them: KeyError leaves wrapper_singleton
InitRaise(t) ==
    /\ pc[t] = "init"
    /\ ~HasCredentials(config[t])
    /\ cres' = [cres EXCEPT ![t] = "KeyError"]
    /\ pc' = [pc EXCEPT ![t] = "idle"]
    /\ UNCHANGED <<heap, instance, self, config, newobj, lastHdr, lastSet, overwritten, blocked>>
    /\ UNCHANGED pvars

\* line 54: wrapper_singleton.instance = <the new object>
ConstructAssign(t) ==
    /\ pc[t] = "assign"
    /\ instance' = newobj[t]
    /\ newobj' = [newobj EXCEPT ![t] = 0]
    /\ pc' = [pc EXCEPT ![t] = "return"]
    /\ UNCHANGED <<heap, self, config, cres, lastHdr, lastSet, overwritten, blocked>>
    /\ UNCHANGED pvars

\* line 56: return wrapper_singleton.instance
ConstructReturn(t) ==
    /\ pc[t] = "return"
    /\ self' = [self EXCEPT ![t] = instance]
    /\ cres' = [cres EXCEPT ![t] = "returned"]
    /\ pc' = [pc EXCEPT ![t] = "idle"]
    /\ UNCHANGED <<heap, instance, config, newobj, lastHdr, lastSet, overwritten, blocked>>
    /\ UNCHANGED pvars

-----------------------------------------------------------------------------
(* Parameter clean-up: Veracross._cleanup_parameters *)

UA == "updated_after"

GoodDate == <<"2", "0", "1", "9", "-", "0", "1", "-", "0", "1">>

BadDate == <<"n", "o", "t", "-", "a", "-", "d", "a", "t", "e">>

\* isinstance(v, str)
IsStr(v) == v.t = "str"

\* isinstance(v, datetime.date); datetime.datetime is a subclass of date
IsDate(v) == v.t \in {"date", "datetime"}

\* isinstance(v, collections.abc.Iterable); a str is iterable too
IsIterable(v) == v.t \in {"str", "list"}

\* whether dateutil.parser.parse accepts s: here the YYYY-MM-DD strings
ParseAccepts(s) ==
    /\ Len(s) = 10
    /\ s[5] = "-" /\ s[8] = "-"
    /\ \A i \in {1, 2, 3, 4, 6, 7, 9, 10} : s[i] \in DigitChars
    /\ int(SubSeq(s, 6, 7)) \in 1..12
    /\ int(SubSeq(s, 9, 10)) \in 1..31

\* the datetime dateutil.parser.parse returns for an accepted string
Parse(s) == PyDatetime(int(SubSeq(s, 1, 4)), int(SubSeq(s, 6, 7)),
                       int(SubSeq(s, 9, 10)))

\* the number n in at least w digits, zero-padded
Pad(n, w) == LET d == Decimal(n)
             IN  [i \in 1..(IF Len(d) < w THEN w - Len(d) ELSE 0) |-> "0"] \o d

\* v.strftime("%Y-%m-%d")
Strftime(v) == Pad(v.v[1], 4) \o <<"-">> \o Pad(v.v[2], 2) \o <<"-">> \o Pad(v.v[3], 2)

\* str(v) for the scalars of the model
ToStr(v) == CASE v.t = "str" -> v.v
              [] v.t = "int" -> Decimal(v.v)
              [] v.t = "none" -> <<"N", "o", "n", "e">>
              [] v.t = "date" -> Strftime(v)
              [] v.t = "datetime" ->
                   Strftime(v) \o <<" ", "0", "0", ":", "0", "0", ":", "0", "0">>
              [] OTHER -> <<"[", "]">>

\* the elements iterating over v yields: characters of a str, items of a list
Elements(v) == IF v.t = "str" THEN [i \in 1..Len(v.v) |-> PyStr(<<v.v[i]>>)]
               ELSE v.v

\* ",".join(strs)
RECURSIVE Join(_)
Join(strs) == IF Len(strs) = 0 THEN <<>>
              ELSE IF Len(strs) = 1 THEN strs[1]
              ELSE strs[1] \o <<",">> \o Join(Tail(strs))

\* `not parameters`: None and the empty dict are falsy
Falsy(p) == DOMAIN p = {} \/ p = None

\* line 122 raises when the updated_after string cannot be parsed
CleanupRaises(p) ==
    /\ ~Falsy(p)
    /\ UA \in DOMAIN p
    /\ IsStr(p[UA])
    /\ ~ParseAccepts(p[UA].v)

\* the keys lines 118-131 assign in params
CleanupKeys(p) == {k \in DOMAIN p : k = UA => (IsStr(p[k]) \/ IsDate(p[k]))}

\* the value lines 119-131 leave in params[k]
CleanupValue(k, v) ==
    IF k = UA
    THEN IF IsDate(v) THEN PyStr(Strftime(v)) ELSE Parse(v.v)
    ELSE IF IsIterable(v)
         THEN PyStr(Join([i \in 1..Len(Elements(v)) |-> ToStr(Elements(v)[i])]))
         ELSE PyStr(ToStr(v))

\* _cleanup_parameters when it returns
CleanupParameters(p) ==
    IF Falsy(p) THEN <<>>
    ELSE [k \in CleanupKeys(p) |-> CleanupValue(k, p[k])]

\* the arguments pull is called with
PullParameters == {None,
                   [updated_after |-> PyStr(GoodDate)],
                   [updated_after |-> PyStr(BadDate)]}

Sources == {"facstaff"}

-----------------------------------------------------------------------------
(* The server: every response a request can be answered with *)

NoTotal == <<>>

\* X-Total-Count values: the multiples of the page size and one in between
TotalCounts == {PageSize * k : k \in 0..MaxHundreds} \cup {PageSize + 50}

\* X-Rate-Limit-Remaining values: below, at and above the threshold of line 108
Remainings == {0, 1, 2}

Bodies == {<<1>>, <<2, 3>>}

Responses == [status : {OkStatus, 404},
              total : {NoTotal} \cup {Decimal(n) : n \in TotalCounts},
              remaining : {Decimal(n) : n \in Remainings},
              reset : {Decimal(n) : n \in 0..MaxReset},
              body : Bodies]

\* the fields of a response that pull reads after the request returned
Kept(r) == [status |-> r.status, remaining |-> r.remaining,
            reset |-> r.reset, body |-> r.body]

-----------------------------------------------------------------------------
(* Veracross.pull and Veracross.set_timers *)

StatusOkAlways(status) == status # 0

\* line 153
StatusOk(status) == status = OkStatus

\* lines 155-159
TotalPages(total) == IF total # NoTotal THEN int(total) \div PageSize + 1 ELSE 1

\* line 161
LoopTest(pg, pgs) == pg <= pgs

AddRecordsInFront(recs, body) == body \o recs

\* line 162
AddRecords(recs, body) == recs \o body

\* line 108
MustSleep(remaining) == remaining = 1

\* line 109
SleepTime(reset) == reset + 1

\* line 147
SourceUrl(api_url, source) == api_url \o <<source, ".json">>

PageUrlBeforeIncrement(u, pg) == u \o <<"?page=">> \o Decimal(pg - 1)

\* line 166: f"{url}?page={page}"
PageUrl(u, pg) == u \o <<"?page=">> \o Decimal(pg)

NotConnectedNever(auth) == FALSE

\* line 144: `not self.__session.auth`; <<>> stands for an auth of None
NotConnected(auth) == auth = <<>>

Request(u, ps) == [url |-> u, params |-> ps]

Client(t) == heap[self[t]]

\* pull returns or raises: its locals other than the returned records go away
Leave(t, outcome) ==
    /\ pc' = [pc EXCEPT ![t] = "idle"]
    /\ result' = [result EXCEPT ![t] = outcome]
    /\ response' = [response EXCEPT ![t] = NoResponse]

\* lines 144-149: the credential check, the URL and the parameter clean-up
PullStart(t, source, p) ==
    /\ pc[t] = "idle"
    /\ self[t] # 0
    /\ config' = [config EXCEPT ![t] = NoConfig]
    /\ cres' = [cres EXCEPT ![t] = "none"]
    /\ parameters' = [parameters EXCEPT ![t] = p]
    /\ records' = [records EXCEPT ![t] = <<>>]
    /\ page' = [page EXCEPT ![t] = 0]
    /\ pages' = [pages EXCEPT ![t] = 0]
    /\ reqs' = [reqs EXCEPT ![t] = <<>>]
    /\ got' = [got EXCEPT ![t] = <<>>]
    /\ badparsed' = [badparsed EXCEPT ![t] = FALSE]
    /\ non200' = [non200 EXCEPT ![t] = FALSE]
    /\ first' = [first EXCEPT ![t] = NoFirst]
    /\ response' = [response EXCEPT ![t] = NoResponse]
    /\ IF NotConnected(Client(t).auth)
       THEN /\ result' = [result EXCEPT ![t] = "RuntimeError"]
            /\ UNCHANGED <<pc, url, params>>
       ELSE IF Client(t).api_url = <<>>
       THEN /\ result' = [result EXCEPT ![t] = "AttributeError"]
            /\ UNCHANGED <<pc, url, params>>
       ELSE IF CleanupRaises(p)
       THEN /\ result' = [result EXCEPT ![t] = "ParserError"]
            /\ url' = [url EXCEPT ![t] = SourceUrl(Client(t).api_url, source)]
            /\ UNCHANGED <<pc, params>>
       ELSE /\ result' = [result EXCEPT ![t] = "none"]
            /\ url' = [url EXCEPT ![t] = SourceUrl(Client(t).api_url, source)]
            /\ params' = [params EXCEPT ![t] = CleanupParameters(p)]
            /\ pc' = [pc EXCEPT ![t] = "get"]
    /\ UNCHANGED <<heap, instance, self, newobj, lastHdr, lastSet, overwritten, blocked>>

\* a request is sent and its response r received
Exchange(t, u, r) ==
    /\ reqs' = [reqs EXCEPT ![t] = Append(@, Request(u, params[t]))]
    /\ got' = [got EXCEPT ![t] = Append(@, r.body)]
    /\ non200' = [non200 EXCEPT ![t] = @ \/ r.status # OkStatus]
    /\ lastHdr' = <<int(r.remaining), int(r.reset)>>
    /\ blocked' = 0

\* lines 150-161: the first request, the status test and the page count
GetFirstFrom(t, R) ==
    /\ pc[t] = "get"
    /\ \E r \in R :
        /\ Exchange(t, url[t], r)
        /\ first' = [first EXCEPT ![t] = [status |-> r.status, total |-> r.total]]
        /\ IF StatusOk(r.status)
           THEN /\ page' = [page EXCEPT ![t] = 1]
                /\ pages' = [pages EXCEPT ![t] = TotalPages(r.total)]
                /\ IF LoopTest(1, TotalPages(r.total))
                   THEN /\ pc' = [pc EXCEPT ![t] = "body"]
                        /\ response' = [response EXCEPT ![t] = Kept(r)]
                        /\ UNCHANGED result
                   ELSE Leave(t, "returned")
           ELSE /\ Leave(t, "returned")
                /\ UNCHANGED <<page, pages>>
    /\ UNCHANGED <<heap, instance, self, records, badparsed, params, parameters,
                   url, lastSet, overwritten>>
    /\ UNCHANGED cvars

GetFirst(t) == GetFirstFrom(t, Responses)

NextPageSame(p) == p

\* line 163: page += 1
NextPage(p) == p + 1

\* lines 162-163: records += response.json(); page += 1
LoopBody(t) ==
    /\ pc[t] = "body"
    /\ records' = [records EXCEPT ![t] = AddRecords(@, response[t].body)]
    /\ badparsed' = [badparsed EXCEPT ![t] = @ \/ response[t].status # OkStatus]
    /\ page' = [page EXCEPT ![t] = NextPage(@)]
    /\ pc' = [pc EXCEPT ![t] = "set_remaining"]
    /\ UNCHANGED <<heap, instance, self, params, response, pages, result, reqs,
                   got, non200, first, parameters, url, lastHdr, lastSet, overwritten, blocked>>
    /\ UNCHANGED cvars

\* lines 105-106 executed by t land between the two assignments, or between
\* the assignments and the reads of lines 108-109, of every other thread that
\* is inside set_timers on the same object
Overwrites(t) ==
    [u \in Threads |->
        IF u # t /\ self[u] = self[t] /\ pc[u] \in {"set_reset", "check", "sleep"}
        THEN TRUE ELSE overwritten[u]]

SetRemainingFromReset(t) ==
    /\ pc[t] = "set_remaining"
    /\ heap' = [heap EXCEPT ![self[t]].rate_limit_remaining = int(response[t].reset)]
    /\ pc' = [pc EXCEPT ![t] = "set_reset"]
    /\ lastSet' = <<int(response[t].remaining), int(response[t].reset)>>
    /\ overwritten' = [Overwrites(t) EXCEPT ![t] = FALSE]
    /\ UNCHANGED <<instance, self, lastHdr, blocked>>
    /\ UNCHANGED pvars
    /\ UNCHANGED cvars

\* line 105: self.rate_limit_remaining = int(limit_remaining)
SetRemaining(t) ==
    /\ pc[t] = "set_remaining"
    /\ heap' = [heap EXCEPT ![self[t]].rate_limit_remaining = int(response[t].remaining)]
    /\ pc' = [pc EXCEPT ![t] = "set_reset"]
    /\ lastSet' = <<int(response[t].remaining), int(response[t].reset)>>
    /\ overwritten' = [Overwrites(t) EXCEPT ![t] = FALSE]
    /\ UNCHANGED <<instance, self, lastHdr, blocked>>
    /\ UNCHANGED pvars
    /\ UNCHANGED cvars

SetResetFromRemaining(t) ==
    /\ pc[t] = "set_reset"
    /\ heap' = [heap EXCEPT ![self[t]].rate_limit_reset = int(response[t].remaining)]
    /\ pc' = [pc EXCEPT ![t] = "check"]
    /\ overwritten' = Overwrites(t)
    /\ UNCHANGED <<instance, self, lastHdr, lastSet, blocked>>
    /\ UNCHANGED pvars
    /\ UNCHANGED cvars

\* line 106: self.rate_limit_reset = int(limit_reset)
SetReset(t) ==
    /\ pc[t] = "set_reset"
    /\ heap' = [heap EXCEPT ![self[t]].rate_limit_reset = int(response[t].reset)]
    /\ pc' = [pc EXCEPT ![t] = "check"]
    /\ overwritten' = Overwrites(t)
    /\ UNCHANGED <<instance, self, lastHdr, lastSet, blocked>>
    /\ UNCHANGED pvars
    /\ UNCHANGED cvars

\* line 108: if self.rate_limit_remaining == 1
CheckRemaining(t) ==
    /\ pc[t] = "check"
    /\ pc' = [pc EXCEPT ![t] = IF MustSleep(Client(t).rate_limit_remaining)
                                THEN "sleep" ELSE "get_next"]
    /\ UNCHANGED <<heap, instance, self, lastHdr, lastSet, overwritten, blocked>>
    /\ UNCHANGED pvars
    /\ UNCHANGED cvars

\* line 109: time.sleep(self.rate_limit_reset + 1)
Sleep(t) ==
    /\ pc[t] = "sleep"
    /\ blocked' = blocked + SleepTime(Client(t).rate_limit_reset)
    /\ pc' = [pc EXCEPT ![t] = "get_next"]
    /\ UNCHANGED <<heap, instance, self, lastHdr, lastSet, overwritten>>
    /\ UNCHANGED pvars
    /\ UNCHANGED cvars

\* line 166, the loop test of line 161 and the return of line 168
GetNextFrom(t, R) ==
    /\ pc[t] = "get_next"
    /\ \E r \in R :
        /\ Exchange(t, PageUrl(url[t], page[t]), r)
        /\ IF LoopTest(page[t], pages[t])
           THEN /\ pc' = [pc EXCEPT ![t] = "body"]
                /\ response' = [response EXCEPT ![t] = Kept(r)]
                /\ UNCHANGED result
           ELSE Leave(t, "returned")
    /\ UNCHANGED <<heap, instance, self, records, badparsed, params, parameters,
                   url, page, pages, first, lastSet, overwritten>>
    /\ UNCHANGED cvars

GetNext(t) == GetNextFrom(t, Responses)

-----------------------------------------------------------------------------
(* One caller: thread 1 constructs clients and pulls, one call at a time *)

Callers == {1}

ConstructWith(t, C) == \E c \in C : ConstructExisting(t, c) \/ ConstructCall(t, c)

Construct(t) == ConstructWith(t, Configs)

PullWith(t, P) == \E src \in Sources, p \in P : PullStart(t, src, p)

Pull(t) == PullWith(t, PullParameters)

Next ==
    \/ \E t \in Callers : Construct(t)
    \/ \E t \in Callers : InitOk(t)
    \/ \E t \in Callers : InitRaise(t)
    \/ \E t \in Callers : ConstructAssign(t)
    \/ \E t \in Callers : ConstructReturn(t)
    \/ \E t \in Callers : Pull(t)
    \/ \E t \in Callers : GetFirst(t)
    \/ \E t \in Callers : LoopBody(t)
    \/ \E t \in Callers : SetRemaining(t)
    \/ \E t \in Callers : SetReset(t)
    \/ \E t \in Callers : CheckRemaining(t)
    \/ \E t \in Callers : Sleep(t)
    \/ \E t \in Callers : GetNext(t)

Spec == Init /\ [][Next]_vars

-----------------------------------------------------------------------------
(* One caller and a hostile environment: the session's auth can be cleared   *)
(* between calls, and a request can fail in the transport                   *)

EnvConfigs == {[school_short_name |-> "abc", vcurl |-> Absent,
                vcuser |-> "alice", vcpass |-> "pw"]}

EnvResponses == [status : {OkStatus, 404},
                 total : {NoTotal, Decimal(PageSize * MaxHundreds)},
                 remaining : {Decimal(1), Decimal(2)},
                 reset : {Decimal(MaxReset)},
                 body : Bodies]

\* the caller sets the auth of the client's requests.Session back to None
DropAuth(t) ==
    /\ pc[t] = "idle"
    /\ self[t] # 0
    /\ Client(t).auth # <<>>
    /\ heap' = [heap EXCEPT ![self[t]].auth = <<>>]
    /\ PullReset(t)
    /\ UNCHANGED <<instance, pc, self, lastHdr, lastSet, overwritten, blocked>>
    /\ UNCHANGED cvars

OnTransportErrorSwallowed(recs) == [outcome |-> "returned", value |-> recs]

\* lines 150 and 166 have no try: the exception of self.__session.get leaves
\* pull, and nothing is returned
OnTransportError(recs) == [outcome |-> "ConnectionError", value |-> <<>>]

\* self.__session.get raises instead of returning a response
GetFails(t) ==
    /\ pc[t] \in {"get", "get_next"}
    /\ reqs' = [reqs EXCEPT ![t] =
                  Append(@, Request(IF pc[t] = "get" THEN url[t]
                                    ELSE PageUrl(url[t], page[t]), params[t]))]
    /\ records' = [records EXCEPT ![t] = OnTransportError(@).value]
    /\ Leave(t, OnTransportError(records[t]).outcome)
    /\ UNCHANGED <<heap, instance, self, params, page, pages, got, badparsed,
                   non200, first, parameters, url, lastHdr, lastSet, overwritten, blocked>>
    /\ UNCHANGED cvars

NextEnv ==
    \/ \E t \in Callers : ConstructWith(t, EnvConfigs)
    \/ \E t \in Callers : InitOk(t)
    \/ \E t \in Callers : ConstructAssign(t)
    \/ \E t \in Callers : ConstructReturn(t)
    \/ \E t \in Callers : DropAuth(t)
    \/ \E t \in Callers : PullWith(t, {None})
    \/ \E t \in Callers : GetFirstFrom(t, EnvResponses)
    \/ \E t \in Callers : GetFails(t)
    \/ \E t \in Callers : LoopBody(t)
    \/ \E t \in Callers : SetRemaining(t)
    \/ \E t \in Callers : SetReset(t)
    \/ \E t \in Callers : CheckRemaining(t)
    \/ \E t \in Callers : Sleep(t)
    \/ \E t \in Callers : GetNextFrom(t, EnvResponses)

SpecEnv == Init /\ [][NextEnv]_vars

-----------------------------------------------------------------------------
(* The single caller, where every HTTP request and every sleep returns: a   *)
(* pull that has started keeps taking its next step                         *)

PullStep(t) ==
    \/ GetFirst(t)
    \/ LoopBody(t)
    \/ SetRemaining(t)
    \/ SetReset(t)
    \/ CheckRemaining(t)
    \/ Sleep(t)
    \/ GetNext(t)

NextFair ==
    \/ \E t \in Callers : ConstructWith(t, EnvConfigs)
    \/ \E t \in Callers : InitOk(t)
    \/ \E t \in Callers : ConstructAssign(t)
    \/ \E t \in Callers : ConstructReturn(t)
    \/ \E t \in Callers : PullWith(t, {None})
    \/ \E t \in Callers : PullStep(t)

SpecFair == Init /\ [][NextFair]_vars /\ \A t \in Callers : WF_vars(PullStep(t))

-----------------------------------------------------------------------------
(* Two threads use the decorated class and the client at the same time; a   *)
(* thread can be preempted between any two of the steps above               *)

ConcConfigs == {[school_short_name |-> "abc", vcurl |-> Absent,
                 vcuser |-> u, vcpass |-> "pw"] : u \in {"alice", "bob"}}

\* two responses whose header pairs differ in both values
ConcResponses == {[status |-> OkStatus, total |-> NoTotal, remaining |-> Decimal(1),
                   reset |-> Decimal(MaxReset), body |-> <<1>>],
                  [status |-> OkStatus, total |-> NoTotal, remaining |-> Decimal(2),
                   reset |-> Decimal(0), body |-> <<2, 3>>]}

NextConc ==
    \/ \E t \in Threads : ConstructWith(t, ConcConfigs)
    \/ \E t \in Threads : InitOk(t)
    \/ \E t \in Threads : ConstructAssign(t)
    \/ \E t \in Threads : ConstructReturn(t)
    \/ \E t \in Threads : PullWith(t, {None})
    \/ \E t \in Threads : GetFirstFrom(t, ConcResponses)
    \/ \E t \in Threads : LoopBody(t)
    \/ \E t \in Threads : SetRemaining(t)
    \/ \E t \in Threads : SetReset(t)
    \/ \E t \in Threads : CheckRemaining(t)
    \/ \E t \in Threads : Sleep(t)
    \/ \E t \in Threads : GetNextFrom(t, ConcResponses)

SpecConc == Init /\ [][NextConc]_vars

-----------------------------------------------------------------------------
(* The parameter clean-up on its own: _cleanup_parameters applied to a      *)
(* mapping, and applied again to its own result                             *)

NormKeys == {UA, "ids", "foo"}

NormValues == {PyStr(<<"a">>), PyStr(<<"a", "b">>), PyStr(GoodDate), PyStr(BadDate),
               PyInt(42), PyList(<<PyInt(1), PyInt(2), PyInt(3)>>),
               PyDate(2019, 1, 1), PyDatetime(2019, 1, 1), None}

\* updated_after is given a string only where the parser's verdict is known
UAValues == NormValues \ {PyStr(<<"a">>), PyStr(<<"a", "b">>)}

NormInputs ==
    {None} \cup UNION {{f \in [K -> NormValues] : UA \in K => f[UA] \in UAValues} :
                        K \in SUBSET NormKeys}

\* lines 111-133 applied to p: the mapping returned, or the error raised
Cleanup(t, p) ==
    /\ pc[t] = "idle"
    /\ parameters' = [parameters EXCEPT ![t] = p]
    /\ IF CleanupRaises(p)
       THEN /\ result' = [result EXCEPT ![t] = "ParserError"]
            /\ params' = [params EXCEPT ![t] = <<>>]
       ELSE /\ result' = [result EXCEPT ![t] = "normalized"]
            /\ params' = [params EXCEPT ![t] = CleanupParameters(p)]
    /\ UNCHANGED <<heap, instance, pc, self, response, records, page, pages, reqs,
                   got, badparsed, non200, first, url, lastHdr, lastSet, overwritten, blocked>>
    /\ UNCHANGED cvars

Normalize(t) == \E p \in NormInputs : Cleanup(t, p)

\* the mapping returned last is passed to _cleanup_parameters again
Renormalize(t) ==
    /\ result[t] = "normalized"
    /\ parameters[t] \in NormInputs
    /\ parameters[t] # params[t]
    /\ Cleanup(t, params[t])

NextNorm ==
    \/ \E t \in Callers : Normalize(t)
    \/ \E t \in Callers : Renormalize(t)

SpecNorm == Init /\ [][NextNorm]_vars

-----------------------------------------------------------------------------
(* Properties *)

\* a pull call of thread t has returned its records
Returned(t) == pc[t] = "idle" /\ result[t] = "returned"

\* a request was sent by thread t in this step
Sends(t) == Len(reqs'[t]) = Len(reqs[t]) + 1

\* total pages as the specification computes them from X-Total-Count
PagesOf(total) == IF total = NoTotal THEN 1 ELSE int(total) \div 100 + 1

RECURSIVE Flatten(_)
Flatten(ss) == IF Len(ss) = 0 THEN <<>> ELSE ss[1] \o Flatten(Tail(ss))

\* C1: a pull whose first response has status 200 and no X-Total-Count returns
\* exactly that response's records and has sent exactly one request.
C1_SinglePageOneRequest ==
    \A t \in Threads :
        (Returned(t) /\ first[t].status = 200 /\ first[t].total = NoTotal)
        => (records[t] = got[t][1] /\ Len(reqs[t]) = 1)

\* C2: a pull whose first response has status 200 and X-Total-Count = T has
\* sent exactly N = T div 100 + 1 requests: the first without a page value,
\* then one with page=n for each n in 2..N.
C2_MultiPageRequests ==
    \A t \in Threads :
        (Returned(t) /\ first[t].status = 200 /\ first[t].total # NoTotal)
        => LET N == PagesOf(first[t].total)
           IN  /\ Len(reqs[t]) = N
               /\ reqs[t][1].url = url[t]
               /\ \A n \in 2..N : reqs[t][n].url = PageUrl(url[t], n)

\* C3: a successful pull with N total pages returns the bodies of the
\* responses for pages 1..N concatenated in that order, each once, and the
\* body of no other response.
C3_RecordsArePages ==
    \A t \in Threads :
        (Returned(t) /\ first[t].status = 200)
        => LET N == PagesOf(first[t].total)
           IN  /\ Len(got[t]) >= N
               /\ records[t] = Flatten(SubSeq(got[t], 1, N))

C3_Witness ==
    \E t \in Threads :
        /\ Returned(t) /\ first[t].status = 200
        /\ PagesOf(first[t].total) = 2
        /\ got[t][1] # got[t][2]
        /\ got[t][3] # got[t][2]
        /\ records[t] = got[t][1] \o got[t][2]

\* C4: after a response with X-Rate-Limit-Remaining = 1 and X-Rate-Limit-Reset
\* = R the client sends no request, in this pull or a later one, before it
\* has slept at least R + 1; it sleeps only after such a response.
C4_Throttle ==
    [][\A t \in Threads :
          /\ Sends(t) => (lastHdr[1] = 1 => blocked >= lastHdr[2] + 1)
          /\ blocked' > blocked => lastHdr[1] = 1]_vars

\* C5: when a request is sent, the stored remainingCalls and resetSeconds are
\* the rate-limit header values of the last response the client received.
C5_StoredAfterEveryResponse ==
    [][\A t \in Threads :
          Sends(t) => \/ lastHdr = NoHdr
                      \/ lastHdr = <<Client(t).rate_limit_remaining,
                                     Client(t).rate_limit_reset>>]_vars

\* C6: a pull whose first response has a status other than 200 returns the
\* empty sequence, raises nothing and sends no further request.
C6_Non200FirstIsEmpty ==
    \A t \in Threads :
        first[t].status \notin {0, 200}
        => /\ Returned(t)
           /\ records[t] = <<>>
           /\ Len(reqs[t]) = 1

C6_Witness ==
    \E t \in Threads :
        /\ first[t].status = 404
        /\ Returned(t)
        /\ records[t] = <<>>
        /\ got[t][1] # <<>>

\* C7: no body of a response whose status is not 200 is parsed or appended,
\* whichever page it answers, and a pull that received one returns empty.
C7_Non200NeverParsed ==
    \A t \in Threads :
        non200[t] => /\ ~badparsed[t]
                     /\ Returned(t) => records[t] = <<>>

\* C8: a successful construction returns a client authenticated with the
\* username, password and base URL of the configuration passed to that call.
C8_NoStaleClient ==
    \A t \in Threads :
        (pc[t] = "idle" /\ cres[t] = "returned" /\ HasCredentials(config[t]))
        => /\ Client(t).auth = <<config[t].vcuser, config[t].vcpass>>
           /\ Client(t).api_url = ApiUrl(config[t])

\* a configuration with a non-empty username and a non-empty password
Complete(c) == c.vcuser \notin {Absent, ""} /\ c.vcpass \notin {Absent, ""}

\* C9: construction succeeds only with a non-empty username and password;
\* otherwise it fails with the credentials-missing error and keeps no client,
\* and a later construction with complete credentials makes a client with them.
C9_CredentialsRequired ==
    \A t \in Threads :
        (pc[t] = "idle" /\ cres[t] # "none")
        => IF Complete(config[t])
           THEN /\ cres[t] = "returned"
                /\ Client(t).auth = <<config[t].vcuser, config[t].vcpass>>
           ELSE /\ cres[t] = "KeyError"
                /\ self[t] = 0 => instance = 0

\* an updated_after string that is not a timestamp
Malformed(p) == ~Falsy(p) /\ UA \in DOMAIN p /\ IsStr(p[UA]) /\ p[UA].v = BadDate

\* C10: with an unparseable updated_after string the clean-up raises nothing,
\* the key is absent from the normalized mapping and pull sends its request.
C10_MalformedDateDropped ==
    \A t \in Threads :
        (Malformed(parameters[t]) /\ result[t] # "AttributeError")
        => /\ result[t] # "ParserError"
           /\ UA \notin DOMAIN params[t]
           /\ pc[t] = "idle" => Len(reqs[t]) >= 1

\* C13: the base URL of the client __init__ builds is the vcurl override
\* whenever one is given, whether or not a short name is given too; otherwise
\* it is the fixed pattern with the short name templated in.
C13_OverrideWins ==
    \A t \in Threads :
        pc[t] = "assign"
        => LET o == heap[newobj[t]]
               c == config[t]
           IN  /\ c.vcurl # Absent => o.api_url = <<c.vcurl>>
               /\ (c.vcurl = Absent /\ c.school_short_name # Absent)
                  => o.api_url = <<"https://api.veracross.com/",
                                   c.school_short_name, "/v2/">>

C13_Witness ==
    \E t \in Threads :
        /\ pc[t] = "assign"
        /\ config[t].vcurl # Absent
        /\ config[t].school_short_name # Absent
        /\ heap[newobj[t]].api_url = <<config[t].vcurl>>

\* the URL the k-th request of a pull is expected to carry
ExpectedUrl(t, k) == IF k = 1 THEN url[t]
                     ELSE url[t] \o <<"?page=">> \o Decimal(k)

\* C15: within one pull the k-th request is the request for page k (the first
\* without a page value), so no page is requested twice, and a request after
\* the first is sent only once the previous response has been received and
\* its rate-limit headers stored and acted on.
C15_SequentialPages ==
    /\ [](\A t \in Threads :
            /\ Len(got[t]) = Len(reqs[t])
            /\ \A k \in 1..Len(reqs[t]) : reqs[t][k].url = ExpectedUrl(t, k))
    /\ [][\A t \in Threads :
            (Sends(t) /\ Len(reqs[t]) >= 1)
            => /\ pc[t] = "get_next"
               /\ lastHdr = <<Client(t).rate_limit_remaining,
                              Client(t).rate_limit_reset>>
               /\ lastHdr[1] = 1 => blocked = lastHdr[2] + 1]_vars

C15_Witness ==
    \E t \in Threads :
        /\ Len(reqs[t]) = 3
        /\ reqs[t][1].url = url[t]
        /\ reqs[t][2].url # reqs[t][3].url
        /\ Returned(t)

\* the stored pair (remainingCalls, resetSeconds) of client i
Stored(i) == <<heap[i].rate_limit_remaining, heap[i].rate_limit_reset>>

\* C17: with one caller, between operations the stored pair is the
\* construction default (300, 0) until a response has been handed to the
\* rate-limit update and the header pair of the last such response after
\* that; only the two assignments of set_timers ever change it.
C17_RateLimitState ==
    /\ [](\A t \in Callers :
            (pc[t] = "idle" /\ self[t] # 0)
            => Stored(self[t]) = IF lastSet = NoHdr THEN <<300, 0>> ELSE lastSet)
    /\ [][\A i \in 1..Len(heap) :
            Stored(i)' # Stored(i)
            => \E t \in Callers : /\ self[t] = i
                                  /\ pc[t] \in {"set_remaining", "set_reset"}]_vars

C17_Witness ==
    \E t \in Callers :
        /\ pc[t] = "idle" /\ self[t] # 0
        /\ lastSet # NoHdr
        /\ lastSet # <<300, 0>>
        /\ lastHdr # lastSet
        /\ Stored(self[t]) = lastSet
        /\ cres[t] = "returned"

\* a mapping whose values are all strings
AllStrings(p) == p # None /\ \A k \in DOMAIN p : IsStr(p[k])

\* _cleanup_parameters has been applied for thread t
Cleaned(t) == result[t] \in {"normalized", "ParserError"}

\* C11: the clean-up returns a mapping whose values are all strings unchanged
\* (so cleaning twice equals cleaning once); a string is never split into its
\* characters and comma-joined.
C11_Idempotent ==
    \A t \in Threads :
        (Cleaned(t) /\ AllStrings(parameters[t]))
        => /\ result[t] = "normalized"
           /\ params[t] = parameters[t]

\* C12: every value of the cleaned mapping is a string: "2019-01-01" and a
\* date or datetime under updated_after give "2019-01-01", a collection gives
\* its elements joined by commas, another value its string form, and None
\* gives the empty mapping.
C12_AllValuesStrings ==
    \A t \in Threads :
        Cleaned(t)
        => LET p == parameters[t]
               q == params[t]
           IN  /\ result[t] = "normalized"
               /\ \A k \in DOMAIN q : IsStr(q[k])
               /\ p = None => DOMAIN q = {}
               /\ (p # None /\ UA \in DOMAIN p
                     /\ (IsDate(p[UA]) \/ p[UA] = PyStr(GoodDate)))
                  => (UA \in DOMAIN q /\ q[UA] = PyStr(GoodDate))
               /\ (p # None /\ "ids" \in DOMAIN p /\ p["ids"].t = "list")
                  => q["ids"] = PyStr(<<"1", ",", "2", ",", "3">>)
               /\ (p # None /\ "foo" \in DOMAIN p /\ p["foo"].t = "int")
                  => q["foo"] = PyStr(<<"4", "2">>)

\* C14: a pull on a client whose session has no credentials fails with the
\* not-connected error and sends no request: the check comes before every
\* network call.
C14_NotConnected ==
    \A t \in Threads :
        (self[t] # 0 /\ Client(t).auth = <<>>)
        => /\ pc[t] = "idle"
           /\ result[t] \in {"none", "RuntimeError"}
           /\ reqs[t] = <<>>

C14_Witness ==
    \E t \in Threads :
        /\ self[t] # 0
        /\ Client(t).auth = <<>>
        /\ Client(t).api_url # <<>>
        /\ result[t] = "RuntimeError"
        /\ reqs[t] = <<>>

\* C16: when a request of a pull fails in the transport, the error reaches
\* the caller as it is, the request is not sent again, the call sends nothing
\* more, and the records accumulated so far are not returned.
C16_TransportErrorPropagates ==
    \A t \in Threads :
        Len(reqs[t]) > Len(got[t])
        => /\ pc[t] = "idle"
           /\ result[t] = "ConnectionError"
           /\ records[t] = <<>>
           /\ Len(reqs[t]) = Len(got[t]) + 1
           /\ \A k \in 1..Len(reqs[t]) : reqs[t][k].url = ExpectedUrl(t, k)

C16_Witness ==
    \E t \in Threads :
        /\ result[t] = "ConnectionError"
        /\ Len(got[t]) = 2
        /\ Len(reqs[t]) = 3
        /\ got[t][1] # <<>>
        /\ records[t] = <<>>

\* thread t is inside pull
InPull(t) ==
    pc[t] \in {"get", "body", "set_remaining", "set_reset", "check", "sleep", "get_next"}

\* thread t is inside the while loop of pull
InLoop(t) == InPull(t) /\ pc[t] # "get"

\* C19: every pull that has started returns; inside the loop the page count
\* is the one computed from the first response and never changes, the page
\* counter grows by one in every iteration and by nothing else, and the
\* requests sent never exceed the page count plus one.
C19_PullTerminates ==
    /\ \A t \in Callers : InPull(t) ~> pc[t] = "idle"
    /\ [](\A t \in Callers :
            InLoop(t) => /\ pages[t] = PagesOf(first[t].total)
                         /\ page[t] <= pages[t] + 1
                         /\ Len(reqs[t]) <= pages[t] + 1)
    /\ [][\A t \in Callers :
            (InLoop(t) /\ pc'[t] # "idle")
            => /\ pages'[t] = pages[t]
               /\ page'[t] = IF pc[t] = "body" THEN page[t] + 1 ELSE page[t]]_vars

C19_Witness ==
    \E t \in Callers :
        /\ Returned(t)
        /\ pages[t] > 1
        /\ page[t] = pages[t] + 1
        /\ Len(reqs[t]) = pages[t] + 1

\* C18: however construction calls interleave, __init__ completes at most
\* once and every successful call returns the same object.
C18_OneInstance ==
    /\ Len(heap) <= 1
    /\ \A t \in Threads, u \in Threads :
         (self[t] # 0 /\ self[u] # 0) => self[t] = self[u]

\* the rate-limit header pair of response r
HeaderPair(r) == <<int(r.remaining), int(r.reset)>>

\* the pull of another thread is in progress on the object thread t uses
Concurrent(t) ==
    \E u \in Threads : u # t /\ self[u] = self[t] /\ pc[u] # "idle"

\* C20: with two threads pulling on one client, the stored pair always comes
\* from one single response, and a thread about to sleep sleeps for the reset
\* value of the response whose remaining count was 1.
C20_NoTornState ==
    /\ \A i \in 1..Len(heap) :
         (\A t \in Threads : self[t] = i => pc[t] # "set_reset")
         => Stored(i) \in {<<300, 0>>} \cup {HeaderPair(r) : r \in ConcResponses}
    /\ \A t \in Threads :
         pc[t] = "sleep" => /\ int(response[t].remaining) = 1
                            /\ Stored(self[t])[2] = int(response[t].reset)

\* C20 as amended: a caller whose set_timers call is not overlapped by a
\* store of another caller finds, from line 108 on, the pair of the single
\* response it passed, and when it sleeps that response's remaining count is
\* 1 and the duration read is that response's reset value.
C20_PairWhenNotOverwritten ==
    \A t \in Threads :
        (pc[t] \in {"check", "sleep"} /\ ~overwritten[t])
        => /\ Stored(self[t]) = HeaderPair(response[t])
           /\ pc[t] = "sleep" => int(response[t].remaining) = 1

C20_Witness ==
    \E t \in Threads :
        /\ pc[t] = "sleep"
        /\ Concurrent(t)
        /\ ~overwritten[t]
        /\ \E u \in Threads : overwritten[u]
        /\ Stored(self[t]) = HeaderPair(response[t])

====
